---- MODULE Spec2Model ----
(***************************************************************************)
(* A model of the stencil build orchestrator (src/compiler/build.ts:       *)
(* build, validateBuildConfig) and of the TypeScript compiler host built   *)
(* by transpileFile (src/compiler/build.ts: tsHost).                       *)
(*                                                                         *)
(* build() is a promise chain.  Every .then callback of the chain is one   *)
(* action; pc is the callback that runs next.  The collaborators that are  *)
(* imported by build.ts but whose code is elsewhere (compile, bundle, the  *)
(* manifest functions, fs-util, WorkerManager) are modelled from their     *)
(* documented contracts.                                                   *)
(***************************************************************************)
EXTENDS Integers, Sequences, FiniteSets, TLC

\* ------------------------------------------------------------------ bounds
NumTasks == 3       \* source files found by compile: one transpile task each
NumWorkers == 2     \* size of the worker pool
MaxDeps == 2        \* dependent collections declared by the build config
MaxHostCalls == 4   \* calls made on one compiler host
MaxWrites == 2      \* output files one emit writes
MaxMembers == 2     \* members of the class declaration
MaxRuns == 2        \* getStateDecoratorMeta calls on one class node
MaxComponents == 2  \* component descriptors handed to registerComponentsES5

Tasks == 1..NumTasks
BundleTask == NumTasks + 1
AllTasks == 1..(NumTasks + 1)

\* the file paths under the destination directory, in directory order
PathOrder == <<"a.js", "b.js", "c.js", "d.js", "stale.js">>
Paths == {PathOrder[i] : i \in 1..Len(PathOrder)}
\* the output path of the i-th source file, and the loader's path
TaskFiles == <<"a.js", "b.js", "c.js", "d.js">>
LoaderPath == "c.js"
\* component tag names; the i-th source file declares the i-th tag, the
\* source files after these declare no component
TagOrder == <<"cmp-a", "cmp-b">>
Tags == {TagOrder[i] : i \in 1..Len(TagOrder)}

VARIABLES
  cfg,                 \* the BuildConfig handed to build()
  pc,                  \* the callback of the promise chain that runs next
  err,                 \* the rejection a stage raised, or NoErr
  started,             \* history: the stages started so far, in order
  diagnostics,         \* buildResults.diagnostics
  filesToWrite,        \* the FilesToWrite buffer: path -> content
  disk,                \* files under destDir: path -> content
  disk0,               \* history: disk when build() was called
  fsLog,               \* history: <<op, path>> of every write and delete
  reconciler,          \* history: which fs-util function build() called
  wmConnected,         \* WorkerManager: pool is up
  wmDisconnects,       \* history: number of disconnect() calls
  wmQueue,             \* WorkerManager: tasks submitted and not yet dispatched
  wmBusy,              \* WorkerManager: tasks running on a worker
  wmLateRun,           \* history: run() was called on a disconnected manager
  numFiles,            \* number of transpile tasks compile dispatched
  taskResult,          \* result collected for each task, "none" until then
  compileResults,      \* what compile() resolved with, or NoResults
  collections,         \* the manifests the dependent packages publish
  dependentManifests,  \* what generateDependentManifests resolved with
  localManifest,       \* updateManifestUrls' result
  mergeInput,          \* history: the list handed to mergeManifests
  manifest,            \* the merged manifest
  logged,              \* what the logger has been given
  promise,             \* the promise build() returned
  bundleFiles,         \* bundleResults.filesToWrite
  hostDisk,            \* the source tree on disk: path -> text
  moduleFiles,         \* ctx.moduleFiles: path -> record
  diskReads,           \* history: sys.fs.readFileSync calls made, per path
  created,             \* history: records created, per path
  hostRet,             \* history: the last call on the host and what it returned
  hostCalls,           \* number of calls made on the host
  scssDisk,            \* the style files on disk
  jsFiles,             \* compileResults.jsFiles: path -> text
  includedSassFiles,   \* compileResults.includedSassFiles
  sassPending,         \* sys.sass.render calls whose callback has not run, per path
  renderCalls,         \* history: sys.sass.render calls made, per path
  hostLog,             \* history: what the logger was given while compiling
  hostDiagnostics,     \* compileResults.diagnostics
  returned,            \* transpileFile has returned compileResults
  classNode,           \* the members of the class declaration, in source order
  otherNode,           \* the same members declared in another order
  statesMeta,          \* fileMeta.cmpMeta.statesMeta
  otherMeta,           \* cmpMeta.statesMeta of the class in the other order
  otherDone,           \* getStateDecoratorMeta has run on otherNode
  runs,                \* number of getStateDecoratorMeta calls on classNode
  firstMeta,           \* history: statesMeta after the first call
  components,          \* what plt.registerComponents(components) returns
  defined,             \* the plt.defineComponent calls made: tag and class
  registered,          \* registerComponentsES5 has returned
  lastCall             \* history: the last runtime handler a hook called

buildVars == <<cfg, pc, err, started, diagnostics, filesToWrite, disk, disk0,
               fsLog, reconciler, wmConnected, wmDisconnects, wmQueue, wmBusy,
               wmLateRun, numFiles, taskResult, compileResults, collections,
               dependentManifests, localManifest, mergeInput, manifest, logged,
               promise, bundleFiles>>

styleVars == <<scssDisk, jsFiles, includedSassFiles, sassPending, renderCalls,
               hostLog, hostDiagnostics, returned>>

hostVars == <<hostDisk, moduleFiles, diskReads, created, hostRet, hostCalls,
              styleVars>>

decoVars == <<classNode, otherNode, statesMeta, otherMeta, otherDone, runs,
              firstMeta>>

regVars == <<components, defined, registered, lastCall>>

otherVars == <<decoVars, regVars>>

vars == <<buildVars, hostVars, otherVars>>

\* ------------------------------------------------------------- data shapes
ConfigFields == {"srcDir", "sys", "sys.fs", "sys.path", "sys.sass",
                 "sys.rollup", "sys.typescript"}
SysFields == ConfigFields \ {"srcDir", "sys"}

StageOrder == <<"validate", "discover", "compile", "merge", "bundle",
                "generate", "reconcile", "finalize">>

NoErr == [msg |-> "none", hasStack |-> FALSE]
NoResults == [set |-> FALSE, diagnostics |-> <<>>, files |-> <<>>, manifest |-> <<>>]
EmptyMap == [p \in {} |-> "none"]

\* a thrown string has no .stack, a thrown Error has one
ThrownString(m) == [msg |-> m, hasStack |-> FALSE]
ThrownError(m) == [msg |-> m, hasStack |-> TRUE]

\* the two shapes of diagnostic the sources build: build() gives its own a
\* type, transpileFile gives its own a level and no type
Diag(type, level, msg, stack) ==
  [type |-> type, level |-> level, msg |-> msg, stack |-> stack]

LoggerMethods == {"error", "warn", "info", "debug"}

Min(S) == CHOOSE x \in S : \A y \in S : x <= y

InOrder(order, S) == SelectSeq(order, LAMBDA x : x \in S)

\* ------------------------------------------------- validateBuildConfig
\* validateBuildConfig without its last check
validateBuildConfig_NoTypescript(c) ==
  IF "srcDir" \notin c.present THEN "config.srcDir required"
  ELSE IF "sys" \notin c.present THEN "config.sys required"
  ELSE IF "sys.fs" \notin c.present THEN "config.sys.fs required"
  ELSE IF "sys.path" \notin c.present THEN "config.sys.path required"
  ELSE IF "sys.sass" \notin c.present THEN "config.sys.sass required"
  ELSE IF "sys.rollup" \notin c.present THEN "config.sys.rollup required"
  ELSE "ok"

\* The message validateBuildConfig throws, or "ok" when it returns.
validateBuildConfig(c) ==
  IF "srcDir" \notin c.present THEN "config.srcDir required"
  ELSE IF "sys" \notin c.present THEN "config.sys required"
  ELSE IF "sys.fs" \notin c.present THEN "config.sys.fs required"
  ELSE IF "sys.path" \notin c.present THEN "config.sys.path required"
  ELSE IF "sys.sass" \notin c.present THEN "config.sys.sass required"
  ELSE IF "sys.rollup" \notin c.present THEN "config.sys.rollup required"
  ELSE IF "sys.typescript" \notin c.present THEN "config.sys.typescript required"
  ELSE "ok"

\* --------------------------------------------------------- manifests
\* A manifest is a sequence of component entries.  owner is 0 for a component
\* compiled by this build and i for one of the i-th dependent collection;
\* url is "pkg" while relative to the package and "dest" once rewritten.
Entry(tag, owner, url) == [tag |-> tag, owner |-> owner, url |-> url]

ManifestOf(tags, owner, url) ==
  LET s == InOrder(TagOrder, tags) IN [i \in 1..Len(s) |-> Entry(s[i], owner, url)]

\* rewrites every url of a manifest to be relative to the destination root
updateManifestUrls(m) == [i \in 1..Len(m) |-> [m[i] EXCEPT !.url = "dest"]]

\* one manifest per declared collection, in declared order
generateDependentManifests(colls) ==
  [i \in 1..Len(colls) |-> updateManifestUrls(ManifestOf(colls[i], i, "pkg"))]

RECURSIVE AddEntries(_, _)
AddEntries(acc, m) ==
  IF m = <<>> THEN acc
  ELSE AddEntries(IF \E i \in 1..Len(acc) : acc[i].tag = Head(m).tag
                    THEN acc ELSE Append(acc, Head(m)),
                  Tail(m))

RECURSIVE MergeFrom(_, _)
MergeFrom(acc, list) ==
  IF list = <<>> THEN acc ELSE MergeFrom(AddEntries(acc, Head(list)), Tail(list))

\* earlier manifests of the list win a tag
mergeManifests(list) == MergeFrom(<<>>, list)

\* the dependent manifests put before the local one
MergeList_DepsFirst(local, deps) == deps \o <<local>>

\* [].concat((localManifest || []), dependentManifests)
MergeList(local, deps) == <<local>> \o deps

\* Object.assign keeping the target's entry where both have the key
ObjectAssign_KeepTarget(target, source) == target @@ source

\* lines 47 and 69: Object.assign(filesToWrite, source): the source's entries
\* replace the target's
ObjectAssign(target, source) == source @@ target

\* ------------------------------------------------------------ compile
\* line 17: build() turns off compile's own writing of its output
writeCompiledToDisk == FALSE

\* transpileFile maps a TypeScript diagnostic to {msg, level: 'error', ...}:
\* it sets level and no type
TranspileDiagnostic == Diag("undefined", "error", "ts", FALSE)
\* a task the worker could not run is reported by compile as an error
TaskErrorDiagnostic == Diag("error", "undefined", "task", FALSE)
BundleWarning == Diag("warn", "undefined", "bundle", FALSE)

HasOutput(r) == r \in {"ok", "diag", "style"}
TaskPath(t) == TaskFiles[((t - 1) % Len(TaskFiles)) + 1]
TaskTags(n, res) ==
  {TagOrder[t] : t \in {u \in 1..n : u <= Len(TagOrder) /\ HasOutput(res[u])}}

TaskDiags(r) ==
  IF r = "diag" THEN <<TranspileDiagnostic>>
  ELSE IF r = "fail" THEN <<TaskErrorDiagnostic>> ELSE <<>>

RECURSIVE CompileDiags(_, _)
CompileDiags(n, res) ==
  IF n = 0 THEN <<>> ELSE CompileDiags(n - 1, res) \o TaskDiags(res[n])

\* what compile() resolves with once every transpile result is in: the
\* diagnostics in submission order, the compiled files, the components found
CompileResultsOf(n, res) ==
  [set |-> TRUE,
   diagnostics |-> CompileDiags(n, res),
   files |-> [p \in {TaskPath(t) : t \in {u \in 1..n : HasOutput(res[u])}} |-> "compile"],
   manifest |-> ManifestOf(TaskTags(n, res), 0, "pkg")]

\* the style files a component can name and the partial both of them import
ScssPaths == {"a.scss", "b.scss"}
Partial == "_vars.scss"
AllScss == ScssPaths \cup {Partial}

\* a transpile task ends clean, with a TypeScript diagnostic, or in a worker
\* error, and the task of a component can end clean after sass failed on a
\* style that is not on disk; the bundle task ends clean or with a warning
Outcomes(t) ==
  IF t = BundleTask THEN {"ok", "warn"}
  ELSE IF t <= Len(TagOrder) /\ ~(ScssPaths \subseteq scssDisk)
    THEN {"ok", "diag", "fail", "style"}
  ELSE {"ok", "diag", "fail"}

\* lines 337-338: logger.error(`sass.render, getIncludedSassFiles, ${err}`)
SassErrorLog == [method |-> "error", msg |-> "sass.render", text |-> "msg"]

\* ------------------------------------------------------ worker manager
\* run(task) for each task of ts: enqueued in submission order; on a
\* disconnected manager the call fails
WMRun(ts) ==
  IF wmConnected
    THEN /\ wmQueue' = wmQueue \o ts
         /\ UNCHANGED <<wmLateRun, taskResult>>
    ELSE /\ wmLateRun' = TRUE
         /\ taskResult' = [t \in AllTasks |->
                             IF \E i \in 1..Len(ts) : ts[i] = t THEN "fail" ELSE taskResult[t]]
         /\ UNCHANGED wmQueue

WorkerDispatch ==
  /\ wmConnected
  /\ wmQueue # <<>>
  /\ Cardinality(wmBusy) < NumWorkers
  /\ wmBusy' = wmBusy \cup {Head(wmQueue)}
  /\ wmQueue' = Tail(wmQueue)
  /\ UNCHANGED <<hostVars, otherVars, bundleFiles, cfg, pc, err, started,
                 diagnostics, filesToWrite, disk, disk0,
                 fsLog, reconciler, wmConnected, wmDisconnects, wmLateRun, numFiles,
                 taskResult, compileResults, collections, dependentManifests,
                 localManifest, mergeInput, manifest, logged, promise>>

WorkerComplete ==
  \E t \in wmBusy : \E r \in Outcomes(t) :
    /\ wmBusy' = wmBusy \ {t}
    /\ taskResult' = [taskResult EXCEPT ![t] = r]
    /\ logged' = IF r = "style" THEN Append(logged, SassErrorLog) ELSE logged
    /\ UNCHANGED <<hostVars, otherVars, bundleFiles, cfg, pc, err, started,
                   diagnostics, filesToWrite, disk, disk0,
                   fsLog, reconciler, wmConnected, wmDisconnects, wmQueue, wmLateRun,
                   numFiles, compileResults, collections, dependentManifests,
                   localManifest, mergeInput, manifest, promise>>

\* ------------------------------------------------------ fs-util
\* writeFiles: every entry of the buffer is written, nothing is deleted
writeFiles(d, ftw) == ftw @@ d

\* updateDirectories: what is on disk and not in the buffer is deleted, then
\* the additive write
Prune(d, ftw) == [p \in (DOMAIN d) \cap (DOMAIN ftw) |-> d[p]]
updateDirectories(d, ftw) == writeFiles(Prune(d, ftw), ftw)

\* the writes of the first k keys of the buffer (an I/O error after k writes)
WritePrefix(d, ftw, k) ==
  LET keys == InOrder(PathOrder, DOMAIN ftw)
      some == {keys[i] : i \in 1..k}
  IN  [p \in some |-> ftw[p]] @@ d

Writes(d, d2) == {<<"write", p>> : p \in {q \in DOMAIN d2 : q \notin DOMAIN d \/ d2[q] # d[q]}}
Deletes(d, d2) == {<<"delete", p>> : p \in (DOMAIN d) \ (DOMAIN d2)}

\* ------------------------------------------------------------ build()
\* lines 30-33: the first callback runs validateBuildConfig
Validate ==
  /\ pc = "validate"
  /\ started' = Append(started, "validate")
  /\ LET r == validateBuildConfig(cfg) IN
       IF r = "ok" THEN pc' = "discover" /\ UNCHANGED err
                   ELSE pc' = "catch" /\ err' = ThrownString(r)
  /\ UNCHANGED <<hostVars, otherVars, bundleFiles, cfg, diagnostics, filesToWrite,
                 disk, disk0, fsLog, reconciler,
                 wmConnected, wmDisconnects, wmQueue, wmBusy, wmLateRun, numFiles,
                 taskResult, compileResults, collections, dependentManifests,
                 localManifest, mergeInput, manifest, logged, promise>>

\* lines 34-39: generateDependentManifests resolves or rejects
Discover ==
  /\ pc = "discover"
  /\ started' = Append(started, "discover")
  /\ \/ /\ dependentManifests' = generateDependentManifests(collections)
        /\ pc' = "compile"
        /\ UNCHANGED err
     \/ /\ pc' = "catch"
        /\ err' = ThrownError("discover")
        /\ UNCHANGED dependentManifests
  /\ UNCHANGED <<hostVars, otherVars, bundleFiles, cfg, diagnostics, filesToWrite,
                 disk, disk0, fsLog, reconciler,
                 wmConnected, wmDisconnects, wmQueue, wmBusy, wmLateRun, numFiles,
                 taskResult, compileResults, collections,
                 localManifest, mergeInput, manifest, logged, promise>>

\* line 42, compileProject: compile() finds n source files and hands one
\* transpile task per file to the worker manager, or rejects
CompileStart ==
  /\ pc = "compile"
  /\ started' = Append(started, "compile")
  /\ \/ \E n \in 0..NumTasks :
          /\ numFiles' = n
          /\ WMRun([i \in 1..n |-> i])
          /\ pc' = "compiling"
          /\ UNCHANGED err
     \/ /\ pc' = "catch"
        /\ err' = ThrownError("compile")
        /\ UNCHANGED <<numFiles, wmQueue, wmLateRun, taskResult>>
  /\ UNCHANGED <<hostVars, otherVars, bundleFiles, cfg, diagnostics, filesToWrite,
                 disk, disk0, fsLog, reconciler,
                 wmConnected, wmDisconnects, wmBusy, compileResults, collections,
                 dependentManifests, localManifest, mergeInput, manifest, logged,
                 promise>>

\* compile() resolves once the result of every task it dispatched is in
CompileJoin ==
  /\ pc = "compiling"
  /\ ~compileResults.set
  /\ \A t \in 1..numFiles : taskResult[t] # "none"
  /\ compileResults' = CompileResultsOf(numFiles, taskResult)
  /\ IF writeCompiledToDisk
       THEN /\ disk' = writeFiles(disk, compileResults'.files)
            /\ fsLog' = fsLog \cup {<<"write", p>> : p \in DOMAIN compileResults'.files}
       ELSE UNCHANGED <<disk, fsLog>>
  /\ UNCHANGED <<hostVars, otherVars, bundleFiles, cfg, pc, err, started,
                 diagnostics, filesToWrite, disk0,
                 reconciler, wmConnected, wmDisconnects, wmQueue, wmBusy, wmLateRun,
                 numFiles, taskResult, collections, dependentManifests,
                 localManifest, mergeInput, manifest, logged, promise>>

\* the callback runs without compile's promise being awaited
CompileResolved_NoWait == TRUE

\* line 42: compileProject(...).then(...): the callback waits for the promise
\* compile() returned
CompileResolved == compileResults.set

\* lines 42-60: the callback on compile's results
Merge ==
  /\ pc = "compiling"
  /\ CompileResolved
  /\ started' = Append(started, "merge")
  /\ diagnostics' = diagnostics \o compileResults.diagnostics
  /\ filesToWrite' = ObjectAssign(filesToWrite, compileResults.files)
  /\ \/ /\ localManifest' = updateManifestUrls(compileResults.manifest)
        /\ mergeInput' = MergeList(localManifest', dependentManifests)
        /\ manifest' = mergeManifests(mergeInput')
        /\ pc' = "bundle"
        /\ UNCHANGED err
     \/ /\ pc' = "catch"
        /\ err' = ThrownError("merge")
        /\ UNCHANGED <<localManifest, mergeInput, manifest>>
  /\ UNCHANGED <<hostVars, otherVars, bundleFiles, cfg, disk, disk0, fsLog,
                 reconciler, wmConnected, wmDisconnects,
                 wmQueue, wmBusy, wmLateRun, numFiles, taskResult, compileResults,
                 collections, dependentManifests, logged, promise>>

\* line 64, bundleProject: bundle() hands its task to the worker manager, or
\* rejects
BundleStart ==
  /\ pc = "bundle"
  /\ started' = Append(started, "bundle")
  /\ \/ /\ WMRun(<<BundleTask>>)
        /\ pc' = "bundling"
        /\ UNCHANGED err
     \/ /\ pc' = "catch"
        /\ err' = ThrownError("bundle")
        /\ UNCHANGED <<wmQueue, wmLateRun, taskResult>>
  /\ UNCHANGED <<hostVars, otherVars, bundleFiles, cfg, diagnostics, filesToWrite,
                 disk, disk0, fsLog, reconciler,
                 wmConnected, wmDisconnects, wmBusy, numFiles, compileResults,
                 collections, dependentManifests, localManifest, mergeInput,
                 manifest, logged, promise>>

\* lines 64-70: the callback on bundle's results
BundleJoin ==
  /\ pc = "bundling"
  /\ taskResult[BundleTask] # "none"
  /\ diagnostics' = diagnostics \o
       (IF taskResult[BundleTask] = "warn" THEN <<BundleWarning>> ELSE <<>>)
  /\ \/ bundleFiles' = EmptyMap
     \/ \E p \in Paths : bundleFiles' = (p :> "bundle")
  /\ filesToWrite' = ObjectAssign(filesToWrite, bundleFiles')
  /\ pc' = "generate"
  /\ UNCHANGED <<hostVars, otherVars, cfg, err, started, disk, disk0, fsLog,
                 reconciler, wmConnected,
                 wmDisconnects, wmQueue, wmBusy, wmLateRun, numFiles, taskResult,
                 compileResults, collections, dependentManifests, localManifest,
                 mergeInput, manifest, logged, promise>>

\* line 73: generateProjectFiles adds the loader to the buffer, or rejects
Generate ==
  /\ pc = "generate"
  /\ started' = Append(started, "generate")
  /\ \/ /\ filesToWrite' = (LoaderPath :> "project") @@ filesToWrite
        /\ pc' = "reconcile"
        /\ UNCHANGED err
     \/ /\ pc' = "catch"
        /\ err' = ThrownError("generate")
        /\ UNCHANGED filesToWrite
  /\ UNCHANGED <<hostVars, otherVars, bundleFiles, cfg, diagnostics, disk, disk0,
                 fsLog, reconciler, wmConnected,
                 wmDisconnects, wmQueue, wmBusy, wmLateRun, numFiles, taskResult,
                 compileResults, collections, dependentManifests, localManifest,
                 mergeInput, manifest, logged, promise>>

\* the mode test dropped: one reconciler in both modes
Reconciler_AlwaysWriteFiles(c) == "writeFiles"
Reconciler_AlwaysUpdateDirectories(c) == "updateDirectories"

\* lines 78-86: the fs-util function the build calls
Reconciler(c) == IF c.isDevMode THEN "writeFiles" ELSE "updateDirectories"

\* lines 76-86: writeFiles in dev mode, updateDirectories otherwise; either
\* resolves, or rejects on an I/O error after part of its work
Reconcile ==
  /\ pc = "reconcile"
  /\ started' = Append(started, "reconcile")
  /\ reconciler' = Reconciler(cfg)
  /\ \/ /\ disk' = IF reconciler' = "writeFiles"
                     THEN writeFiles(disk, filesToWrite)
                     ELSE updateDirectories(disk, filesToWrite)
        /\ fsLog' = fsLog \cup {<<"write", p>> : p \in DOMAIN filesToWrite}
                          \cup Deletes(disk, disk')
        /\ pc' = "finalize"
        /\ UNCHANGED err
     \/ /\ \E k \in 0..(Cardinality(DOMAIN filesToWrite) - 1) :
             disk' = WritePrefix(IF reconciler' = "writeFiles" \/ k = 0 THEN disk
                                 ELSE Prune(disk, filesToWrite), filesToWrite, k)
        /\ fsLog' = fsLog \cup Writes(disk, disk') \cup Deletes(disk, disk')
        /\ pc' = "catch"
        /\ err' = ThrownError("reconcile")
  /\ UNCHANGED <<hostVars, otherVars, bundleFiles, cfg, diagnostics, filesToWrite,
                 disk0, wmConnected, wmDisconnects,
                 wmQueue, wmBusy, wmLateRun, numFiles, taskResult, compileResults,
                 collections, dependentManifests, localManifest, mergeInput,
                 manifest, logged, promise>>

\* the handler placed before the reconcile step instead of after it
Catch_BeforeReconcile ==
  /\ pc = "catch"
  /\ diagnostics' = Append(diagnostics, Diag("error", "undefined", err.msg, err.hasStack))
  /\ pc' = "reconcile"
  /\ UNCHANGED <<hostVars, otherVars, bundleFiles, cfg, err, started, filesToWrite,
                 disk, disk0, fsLog,
                 reconciler, wmConnected, wmDisconnects, wmQueue, wmBusy, wmLateRun,
                 numFiles, taskResult, compileResults, collections,
                 dependentManifests, localManifest, mergeInput, manifest, logged,
                 promise>>

\* lines 88-93: the rejection becomes an error diagnostic
Catch ==
  /\ pc = "catch"
  /\ diagnostics' = Append(diagnostics, Diag("error", "undefined", err.msg, err.hasStack))
  /\ pc' = "finalize"
  /\ UNCHANGED <<hostVars, otherVars, bundleFiles, cfg, err, started, filesToWrite,
                 disk, disk0, fsLog, reconciler,
                 wmConnected, wmDisconnects, wmQueue, wmBusy, wmLateRun, numFiles,
                 taskResult, compileResults, collections, dependentManifests,
                 localManifest, mergeInput, manifest, logged, promise>>

\* lines 96-102: what the logger is given for one diagnostic
UsesStack(d) == d.type = "error" /\ cfg.logLevel = "debug" /\ d.stack
LogEntry(d) ==
  IF UsesStack(d) THEN [method |-> "error", msg |-> d.msg, text |-> "stack"]
                  ELSE [method |-> d.type, msg |-> d.msg, text |-> "msg"]
\* logger[d.type] is not a function: the call throws a TypeError
Unloggable(d) == ~UsesStack(d) /\ d.type \notin LoggerMethods

\* lines 95-113: the last callback.  A throw inside forEach ends the callback:
\* the rest of it does not run and the promise build() returned rejects.
Finalize ==
  /\ pc = "finalize"
  /\ started' = Append(started, "finalize")
  /\ LET bad == {i \in 1..Len(diagnostics) : Unloggable(diagnostics[i])}
         n == IF bad = {} THEN Len(diagnostics) ELSE Min(bad) - 1
     IN  /\ logged' = logged \o [i \in 1..n |-> LogEntry(diagnostics[i])]
         /\ IF bad # {}
              THEN /\ promise' = "rejected"
                   /\ UNCHANGED <<wmConnected, wmDisconnects>>
              ELSE /\ promise' = "resolved"
                   /\ IF cfg.isWatch
                        THEN UNCHANGED <<wmConnected, wmDisconnects>>
                        ELSE /\ wmConnected' = FALSE
                             /\ wmDisconnects' = wmDisconnects + 1
  /\ pc' = "done"
  /\ UNCHANGED <<hostVars, otherVars, bundleFiles, cfg, err, diagnostics,
                 filesToWrite, disk, disk0, fsLog, reconciler,
                 wmQueue, wmBusy, wmLateRun, numFiles, taskResult, compileResults,
                 collections, dependentManifests, localManifest, mergeInput,
                 manifest>>

\* ------------------------------------------------- the compiler host
\* transpileFile builds one ts.CompilerHost over ctx.moduleFiles.  The source
\* files the host can be asked for, and the texts a file can hold.
SrcPaths == {"cmp.ts", "util.ts", "gone.ts"}
RootFile == "cmp.ts"
Texts == {"", "v1"}

SrcOrder == <<"cmp.ts", "util.ts", "gone.ts">>
JsPaths == {"cmp.js", "util.js"}
JsTexts == {"js1"}

\* the style urls of a component: two urls in different directories have the
\* same base name
Url(dir, base) == [dir |-> dir, base |-> base]
StyleUrlLists ==
  {<<>>, <<Url("", "a.scss")>>, <<Url("", "a.scss"), Url("md", "a.scss")>>,
   <<Url("", "a.scss"), Url("", "b.scss")>>, <<Url("", "b.scss"), Url("", "a.scss")>>}

NoCall == [op |-> "none", path |-> "none", threw |-> FALSE, text |-> "none",
           exists |-> FALSE, reads |-> 0, srcs |-> {}]

ModuleFileMeta(text) ==
  [srcText |-> text, recompileOnChange |-> FALSE, jsFilePath |-> "none",
   jsText |-> "none", isTsSourceFile |-> TRUE, hasCmpMeta |-> FALSE,
   hasStyleMeta |-> FALSE, styleUrls |-> <<>>]

\* the component metadata the transforms can have put on a record: none, a
\* component without styles, a component with style urls
NoCmpMeta == [hasCmpMeta |-> FALSE, hasStyleMeta |-> FALSE, styleUrls |-> <<>>]
CmpMetas ==
  {NoCmpMeta, [NoCmpMeta EXCEPT !.hasCmpMeta = TRUE]}
    \cup {[hasCmpMeta |-> TRUE, hasStyleMeta |-> TRUE, styleUrls |-> u] :
            u \in StyleUrlLists}
WithCmpMeta(rec, m) ==
  [rec EXCEPT !.hasCmpMeta = m.hasCmpMeta, !.hasStyleMeta = m.hasStyleMeta,
              !.styleUrls = m.styleUrls]

\* createModuleFileMeta builds the record of a path and puts it into the map
createModuleFileMeta(mf, p, text) == (p :> ModuleFileMeta(text)) @@ mf

\* fileExists falling through to the disk
fileExists_FallsThrough(mf, p) == p \in DOMAIN mf \/ p \in DOMAIN hostDisk

\* lines 223-225: ctx.moduleFiles.has(filePath)
fileExists(mf, p) == p \in DOMAIN mf

\* readFile never finding the record it cached
HasRecord_Never(mf, p) == FALSE

\* lines 228-229: ctx.moduleFiles.get(filePath) gave a record
HasRecord(mf, p) == p \in DOMAIN mf

HostFileExists ==
  /\ ~returned
  /\ hostCalls < MaxHostCalls
  /\ \E p \in SrcPaths :
       hostRet' = [NoCall EXCEPT !.op = "fileExists", !.path = p,
                                 !.exists = fileExists(moduleFiles, p)]
  /\ hostCalls' = hostCalls + 1
  /\ UNCHANGED <<buildVars, otherVars, styleVars, hostDisk, moduleFiles, diskReads,
                 created>>

\* lines 227-238.  sys.fs.readFileSync throws when there is no such file: the
\* call ends there, no record is created.
HostReadFile ==
  /\ ~returned
  /\ hostCalls < MaxHostCalls
  /\ hostCalls' = hostCalls + 1
  /\ \E p \in SrcPaths :
       IF HasRecord(moduleFiles, p)
         THEN /\ hostRet' = [NoCall EXCEPT !.op = "readFile", !.path = p,
                                           !.text = moduleFiles[p].srcText]
              /\ UNCHANGED <<moduleFiles, diskReads, created>>
         ELSE /\ diskReads' = [diskReads EXCEPT ![p] = @ + 1]
              /\ IF p \in DOMAIN hostDisk
                   THEN /\ moduleFiles' =
                             [createModuleFileMeta(moduleFiles, p, hostDisk[p])
                                EXCEPT ![p].recompileOnChange = TRUE]
                        /\ created' = [created EXCEPT ![p] = @ + 1]
                        /\ hostRet' = [NoCall EXCEPT !.op = "readFile", !.path = p,
                                                     !.text = hostDisk[p], !.reads = 1]
                   ELSE /\ hostRet' = [NoCall EXCEPT !.op = "readFile", !.path = p,
                                                     !.threw = TRUE, !.reads = 1]
                        /\ UNCHANGED <<moduleFiles, created>>
  /\ UNCHANGED <<buildVars, otherVars, styleVars, hostDisk>>

\* the developer edits, creates or deletes a source file while the host is in
\* use (watch mode)
FileChanged ==
  /\ \E p \in SrcPaths :
       \/ \E t \in Texts : hostDisk' = (p :> t) @@ hostDisk
       \/ /\ p \in DOMAIN hostDisk
          /\ hostDisk' = [q \in (DOMAIN hostDisk) \ {p} |-> hostDisk[q]]
  /\ hostDisk' # hostDisk
  /\ UNCHANGED <<buildVars, otherVars, styleVars, moduleFiles, diskReads, created,
                 hostRet,
                 hostCalls>>

\* ------------------------------------------------- output and style files
Listed(list, p) == \E i \in DOMAIN list : list[i] = p
Count(list, p) == Cardinality({i \in DOMAIN list : list[i] = p})

RECURSIVE Concat(_)
Concat(lists) == IF lists = <<>> THEN <<>> ELSE Head(lists) \o Concat(Tail(lists))

\* lines 325-327 and 341-345: a path is pushed unless the list has it
PushNew(list, p) == IF Listed(list, p) THEN list ELSE Append(list, p)
RECURSIVE PushAllNew(_, _)
PushAllNew(list, ps) ==
  IF ps = <<>> THEN list ELSE PushAllNew(PushNew(list, Head(ps)), Tail(ps))

\* line 306: path.join(moduleFile.srcDir, path.basename(styleUrl)); every
\* record of the model is in the one source directory, and a path under it
\* is written by its base name
ScssFilePath(url) == url.base

\* what sass reports as result.stats.includedFiles: the entry file and the
\* files it imports
IncludedFiles(p) == <<p, Partial>>

\* lines 288-317: the paths processIncludedStyles hands to
\* getIncludedSassFiles, in order
processIncludedStyles(rec) ==
  IF ~rec.isTsSourceFile \/ ~rec.hasCmpMeta \/ ~rec.hasStyleMeta
    THEN <<>>
    ELSE [i \in DOMAIN rec.styleUrls |-> ScssFilePath(rec.styleUrls[i])]

\* writeFile touching every record of the map
MarkCompiled_All(mf, srcs, jp, jt) ==
  [p \in DOMAIN mf |->
     [mf[p] EXCEPT !.recompileOnChange = TRUE, !.jsFilePath = jp, !.jsText = jt]]

\* lines 241-247: the records of the originating files, those that have one
MarkCompiled(mf, srcs, jp, jt) ==
  [p \in DOMAIN mf |->
     IF p \in srcs
       THEN [mf[p] EXCEPT !.recompileOnChange = TRUE, !.jsFilePath = jp,
                          !.jsText = jt]
       ELSE mf[p]]

\* the style paths a writeFile call starts a render for, in the order of
\* sourceFiles.forEach
StylesOf(mf, srcs) ==
  Concat([i \in DOMAIN SrcOrder |->
            IF SrcOrder[i] \in srcs /\ SrcOrder[i] \in DOMAIN mf
              THEN processIncludedStyles(mf[SrcOrder[i]])
              ELSE <<>>])

\* lines 240-255.  getIncludedSassFiles (lines 320-353) runs up to the call
\* of sys.sass.render inside the call; the callback runs later.
HostWriteFile ==
  /\ ~returned
  /\ hostCalls < MaxWrites
  /\ hostCalls' = hostCalls + 1
  /\ \E jp \in JsPaths, jt \in JsTexts, srcs \in (SUBSET SrcPaths) \ {{}} :
       LET styles == StylesOf(moduleFiles, srcs) IN
       /\ moduleFiles' = MarkCompiled(moduleFiles, srcs, jp, jt)
       /\ includedSassFiles' = PushAllNew(includedSassFiles, styles)
       /\ renderCalls' = [p \in AllScss |-> renderCalls[p] + Count(styles, p)]
       /\ sassPending' = [p \in AllScss |-> sassPending[p] + Count(styles, p)]
       /\ jsFiles' = (jp :> jt) @@ jsFiles
       /\ hostRet' = [NoCall EXCEPT !.op = "writeFile", !.path = jp, !.text = jt,
                                    !.srcs = srcs]
  /\ UNCHANGED <<buildVars, otherVars, hostDisk, diskReads, created, scssDisk, hostLog,
                 hostDiagnostics, returned>>

\* lines 336-350: the callback of one sys.sass.render call
SassCallback ==
  /\ \E p \in AllScss :
       /\ sassPending[p] > 0
       /\ sassPending' = [sassPending EXCEPT ![p] = @ - 1]
       /\ IF p \in scssDisk
            THEN /\ includedSassFiles' = PushAllNew(includedSassFiles, IncludedFiles(p))
                 /\ UNCHANGED hostLog
            ELSE /\ hostLog' = Append(hostLog, [method |-> "error", msg |-> p])
                 /\ UNCHANGED includedSassFiles
  /\ UNCHANGED <<buildVars, otherVars, hostDisk, moduleFiles, diskReads, created,
                 hostRet,
                 hostCalls, scssDisk, jsFiles, renderCalls, hostDiagnostics,
                 returned>>

\* lines 258-284: emit is over, the diagnostics of the program are mapped and
\* compileResults goes back to the caller
TranspileReturn ==
  /\ ~returned
  /\ returned' = TRUE
  /\ \E ds \in {<<>>, <<TranspileDiagnostic>>} : hostDiagnostics' = ds
  /\ UNCHANGED <<buildVars, otherVars, hostDisk, moduleFiles, diskReads, created,
                 hostRet,
                 hostCalls, scssDisk, jsFiles, includedSassFiles, sassPending,
                 renderCalls, hostLog>>

\* ------------------------------------------------ getStateDecoratorMeta
\* A child of a member node, as forEachChild hands it over: its kind, the
\* text of the first token of what follows the @ of a decorator ("none" when
\* that is a bare identifier, which has no tokens below it), and its text.
Child(kind, firstToken, text) == [kind |-> kind, firstToken |-> firstToken, text |-> text]
StateCall == Child("Decorator", "State", "State()")
StateBare == Child("Decorator", "none", "State")
PropCall == Child("Decorator", "Prop", "Prop()")
DecoratorLists ==
  {<<>>, <<StateCall>>, <<StateBare>>, <<PropCall>>, <<PropCall, StateCall>>,
   <<StateCall, StateBare>>}
MemberNames ==
  {Child("Identifier", "none", "a"), Child("Identifier", "none", "A"),
   Child("Identifier", "none", "B"), Child("StringLiteral", "none", "'a'")}
Members == [decorators : DecoratorLists, name : MemberNames]
NoName == "null"

\* String.prototype.toLowerCase and the order of the lower-cased names
ToLowerCase == [n \in {"a", "A", "B"} |-> IF n = "B" THEN "b" ELSE "a"]
Alphabet == <<"a", "b">>
Before(x, y) ==
  \E i, j \in DOMAIN Alphabet : Alphabet[i] = x /\ Alphabet[j] = y /\ i < j

\* lines 99-103: the comparator
Compare(a, b) ==
  IF Before(ToLowerCase[a], ToLowerCase[b]) THEN 0 - 1
  ELSE IF Before(ToLowerCase[b], ToLowerCase[a]) THEN 1
  ELSE 0

\* Array.prototype.sort on a short array: an insertion sort, which leaves
\* elements the comparator calls equal in the order they came in
RECURSIVE Insert(_, _)
Insert(sorted, x) ==
  IF sorted = <<>> THEN <<x>>
  ELSE IF Compare(x, Head(sorted)) < 0 THEN <<x>> \o sorted
  ELSE <<Head(sorted)>> \o Insert(Tail(sorted), x)
RECURSIVE Sort(_)
Sort(list) ==
  IF list = <<>> THEN <<>> ELSE Insert(Sort(SubSeq(list, 1, Len(list) - 1)), list[Len(list)])

\* lines 73-91: the children of a member are its decorators, then its name
ChildrenOf(m) == m.decorators \o <<m.name>>
IsStateText(n) ==
  \/ n.firstToken # "none" /\ n.firstToken = "State"
  \/ n.firstToken = "none" /\ n.text = "State"
RECURSIVE Scan(_, _, _)
Scan(children, isState, propName) ==
  IF children = <<>> THEN [isState |-> isState, propName |-> propName]
  ELSE LET n == Head(children) IN
       IF n.kind = "Decorator"
         THEN Scan(Tail(children), isState \/ IsStateText(n), propName)
       ELSE IF isState /\ n.kind = "Identifier" /\ propName = NoName
         THEN Scan(Tail(children), isState, n.text)
       ELSE Scan(Tail(children), isState, propName)

\* line 93
IsStateMember(m) ==
  LET r == Scan(ChildrenOf(m), FALSE, NoName) IN
  m.decorators # <<>> /\ r.isState /\ r.propName # NoName

\* lines 67-97: the names pushed, in the order of the members
RECURSIVE Pushed(_)
Pushed(members) ==
  IF members = <<>> THEN <<>>
  ELSE (IF IsStateMember(Head(members))
          THEN <<Scan(ChildrenOf(Head(members)), FALSE, NoName).propName>>
          ELSE <<>>) \o Pushed(Tail(members))

\* line 95: memberNode.decorators = undefined
Stripped(members) ==
  [i \in DOMAIN members |->
     IF IsStateMember(members[i]) THEN [members[i] EXCEPT !.decorators = <<>>]
                                  ELSE members[i]]

\* lines 64-104
GetStateDecoratorMeta ==
  /\ runs < MaxRuns
  /\ runs' = runs + 1
  /\ statesMeta' = Sort(Pushed(classNode))
  /\ classNode' = Stripped(classNode)
  /\ firstMeta' = IF runs = 0 THEN statesMeta' ELSE firstMeta
  /\ UNCHANGED <<buildVars, hostVars, regVars, otherNode, otherMeta, otherDone>>

\* the same function on the class with its members in the other order
GetStateDecoratorMetaOther ==
  /\ ~otherDone
  /\ otherDone' = TRUE
  /\ otherMeta' = Sort(Pushed(otherNode))
  /\ otherNode' = Stripped(otherNode)
  /\ UNCHANGED <<buildVars, hostVars, regVars, classNode, statesMeta, runs,
                 firstMeta>>

\* ------------------------------------------------ registerComponentsES5
\* A component descriptor: its tag, its attributes, its listeners.
Attr(name, type) == [name |-> name, type |-> type]
AttrLists ==
  {<<>>, <<Attr("first", "string")>>, <<Attr("first", "string"), Attr("age", "number")>>}
ListenerLists == {<<>>, <<"click">>}
Descriptors == [tag : Tags, attrs : AttrLists, listeners : ListenerLists]
NoDescriptor == [tag |-> "none", attrs |-> <<>>, listeners |-> <<>>]
NoHandler ==
  [handler |-> "none", elm |-> 0, cmpMeta |-> NoDescriptor, tag |-> "none",
   listeners |-> <<>>, attrName |-> "none"]

\* the observed attributes of a descriptor are the names of its attributes
getObservedAttributes(cmpMeta) ==
  [i \in DOMAIN cmpMeta.attrs |-> cmpMeta.attrs[i].name]

\* the hooks closing over one binding shared by every iteration
Captured_Last(i, n) == n

\* line 11: cmpMeta is the parameter of the forEach callback, so the hooks of
\* the class built in iteration i of n close over the descriptor of iteration i
Captured(i, n) == i

\* lines 12-54: the class built for descriptor i
ProxyHTMLElement(cmps, i) ==
  [cmpMeta |-> cmps[Captured(i, Len(cmps))],
   observedAttributes |-> getObservedAttributes(cmps[i])]

\* lines 9-59
RegisterComponentsES5 ==
  /\ ~registered
  /\ registered' = TRUE
  /\ defined' = [i \in DOMAIN components |->
                   [tag |-> components[i].tag, class |-> ProxyHTMLElement(components, i)]]
  /\ UNCHANGED <<buildVars, hostVars, decoVars, components, lastCall>>

\* lines 21-25: the browser connects an element of a defined class
ConnectedCallback ==
  /\ \E k \in DOMAIN defined :
       lastCall' = [NoHandler EXCEPT !.handler = "connectedCallback", !.elm = k,
                                     !.cmpMeta = defined[k].class.cmpMeta]
  /\ UNCHANGED <<buildVars, hostVars, decoVars, components, defined, registered>>

\* lines 27-31: an observed attribute of an element changes
AttributeChangedCallback ==
  /\ \E k \in DOMAIN defined :
       \E a \in DOMAIN defined[k].class.observedAttributes :
         lastCall' = [NoHandler EXCEPT !.handler = "attributeChangedCallback",
                                       !.elm = k,
                                       !.cmpMeta = defined[k].class.cmpMeta,
                                       !.attrName = defined[k].class.observedAttributes[a]]
  /\ UNCHANGED <<buildVars, hostVars, decoVars, components, defined, registered>>

\* lines 33-37: disconnectedCallback(plt, this)
DisconnectedCallback ==
  /\ \E k \in DOMAIN defined :
       lastCall' = [NoHandler EXCEPT !.handler = "disconnectedCallback", !.elm = k]
  /\ UNCHANGED <<buildVars, hostVars, decoVars, components, defined, registered>>

\* lines 39-43: queueUpdate(plt, config, renderer, this, cmpMeta.tag)
QueueUpdate ==
  /\ \E k \in DOMAIN defined :
       lastCall' = [NoHandler EXCEPT !.handler = "queueUpdate", !.elm = k,
                                     !.tag = defined[k].class.cmpMeta.tag]
  /\ UNCHANGED <<buildVars, hostVars, decoVars, components, defined, registered>>

\* lines 45-49: initLoadComponent(plt, cmpMeta.listeners, this, this.$instance)
InitLoadComponent ==
  /\ \E k \in DOMAIN defined :
       lastCall' = [NoHandler EXCEPT !.handler = "initLoadComponent", !.elm = k,
                                     !.listeners = defined[k].class.cmpMeta.listeners]
  /\ UNCHANGED <<buildVars, hostVars, decoVars, components, defined, registered>>

\* ----------------------------------------------------------------- Init
Configs ==
  {c \in [present : SUBSET ConfigFields, isDevMode : BOOLEAN, isWatch : BOOLEAN,
          logLevel : {"info", "debug"}] :
     "sys" \notin c.present => c.present \cap SysFields = {}}
ValidConfigs == {c \in Configs : c.present = ConfigFields}

Disks == UNION {[S -> {"old"}] : S \in SUBSET Paths}

RECURSIVE SeqsUpTo(_, _)
SeqsUpTo(S, n) ==
  IF n = 0 THEN {<<>>}
  ELSE LET shorter == SeqsUpTo(S, n - 1)
       IN  shorter \cup {Append(s, x) : s \in {q \in shorter : Len(q) = n - 1}, x \in S}
Collections == SeqsUpTo(SUBSET Tags, MaxDeps)

\* the state once build() has returned its promise (lines 12-28): the worker
\* manager is connected, nothing has run yet
InitWith(cfgs, disks, colls) ==
  /\ cfg \in cfgs
  /\ disk \in disks
  /\ disk0 = disk
  /\ collections \in colls
  /\ pc = "validate"
  /\ err = NoErr
  /\ started = <<>>
  /\ diagnostics = <<>>
  /\ filesToWrite = EmptyMap
  /\ fsLog = {}
  /\ reconciler = "none"
  /\ wmConnected = TRUE
  /\ wmDisconnects = 0
  /\ wmQueue = <<>>
  /\ wmBusy = {}
  /\ wmLateRun = FALSE
  /\ numFiles = 0
  /\ taskResult = [t \in AllTasks |-> "none"]
  /\ compileResults = NoResults
  /\ dependentManifests = <<>>
  /\ localManifest = <<>>
  /\ mergeInput = <<>>
  /\ manifest = <<>>
  /\ logged = <<>>
  /\ promise = "pending"
  /\ bundleFiles = EmptyMap

\* transpile() has put the record of the file to compile into ctx.moduleFiles
\* (getFileMeta) before transpileFile builds the host; the map can hold the
\* records of files an earlier transpile of this worker read
InitHostWith(disks, metas, scss, cached) ==
  /\ hostDisk \in disks
  /\ \E m \in metas, c \in cached :
       /\ c \subseteq DOMAIN hostDisk \ {RootFile}
       /\ moduleFiles =
            [p \in c \cup {RootFile} |->
               IF p = RootFile THEN WithCmpMeta(ModuleFileMeta(hostDisk[p]), m)
                               ELSE ModuleFileMeta(hostDisk[p])]
  /\ scssDisk \in scss
  /\ jsFiles = EmptyMap
  /\ includedSassFiles = <<>>
  /\ sassPending = [p \in AllScss |-> 0]
  /\ renderCalls = [p \in AllScss |-> 0]
  /\ hostLog = <<>>
  /\ hostDiagnostics = <<>>
  /\ returned = FALSE
  /\ diskReads = [p \in SrcPaths |-> 0]
  /\ created = [p \in SrcPaths |-> IF p \in DOMAIN moduleFiles THEN 1 ELSE 0]
  /\ hostRet = NoCall
  /\ hostCalls = 0

\* a class declaration, and the same members in any other order
Orders(n) == {f \in [1..n -> 1..n] : \A i, j \in 1..n : f[i] = f[j] => i = j}
InitDecoWith(nodes) ==
  /\ classNode \in nodes
  /\ \E f \in Orders(Len(classNode)) :
       otherNode = [i \in DOMAIN classNode |-> classNode[f[i]]]
  /\ statesMeta = <<>>
  /\ otherMeta = <<>>
  /\ otherDone = FALSE
  /\ runs = 0
  /\ firstMeta = <<>>
NoClass == InitDecoWith({<<>>})

\* the descriptors of a manifest have distinct tags
InitRegWith(lists) ==
  /\ components \in lists
  /\ \A i, j \in DOMAIN components : components[i].tag = components[j].tag => i = j
  /\ defined = <<>>
  /\ registered = FALSE
  /\ lastCall = NoHandler
NoComponents == InitRegWith({<<>>})

SrcDisks == {d \in UNION {[S -> Texts] : S \in SUBSET SrcPaths} : RootFile \in DOMAIN d}
ExampleSrcDisk == [p \in {RootFile} |-> "v1"]
ExampleCmpMeta ==
  [hasCmpMeta |-> TRUE, hasStyleMeta |-> TRUE, styleUrls |-> <<Url("", "a.scss")>>]
ExampleScssDisk == ScssPaths \cup {Partial}
ScssDisks == {d \cup {Partial} : d \in SUBSET ScssPaths}

\* the destination directory of the documented reconciliation example, and
\* two collections that both publish a tag the build compiles itself
ExampleDisk == [p \in {"a.js", "b.js", "stale.js"} |-> "old"]
ExampleCollections == <<{"cmp-a"}, {"cmp-a", "cmp-b"}>>
PlainConfigs == {c \in ValidConfigs : ~c.isWatch /\ c.logLevel = "info"}

\* every build config, on the example directory and collections
Init ==
  /\ InitWith(Configs, {ExampleDisk}, {ExampleCollections})
  /\ InitHostWith({ExampleSrcDisk}, {ExampleCmpMeta}, {ExampleScssDisk}, {{}})
  /\ NoClass
  /\ NoComponents
\* every list of dependent collections
InitMerge ==
  /\ InitWith({c \in PlainConfigs : c.isDevMode}, {ExampleDisk}, Collections)
  /\ InitHostWith({ExampleSrcDisk}, {ExampleCmpMeta}, {ExampleScssDisk}, {{}})
  /\ NoClass
  /\ NoComponents
\* every content of the destination directory, in both modes
InitReconcile ==
  /\ InitWith(PlainConfigs, Disks, {ExampleCollections})
  /\ InitHostWith({ExampleSrcDisk}, {ExampleCmpMeta}, {ExampleScssDisk}, {{}})
  /\ NoClass
  /\ NoComponents
\* one compiler host over every source tree
InitHost ==
  /\ InitWith({c \in PlainConfigs : c.isDevMode}, {ExampleDisk}, {ExampleCollections})
  /\ InitHostWith(SrcDisks, {ExampleCmpMeta}, {ExampleScssDisk}, {{}})
  /\ NoClass
  /\ NoComponents
\* one compiler host over every component metadata and every set of style
\* files
InitStyles ==
  /\ InitWith({c \in PlainConfigs : c.isDevMode}, {ExampleDisk}, {ExampleCollections})
  /\ InitHostWith({[p \in {RootFile, "util.ts"} |-> "v1"]}, CmpMetas, ScssDisks,
                  SUBSET {"util.ts"})
  /\ NoClass
  /\ NoComponents
\* one class declaration, every list of members
InitStates ==
  /\ InitWith({c \in PlainConfigs : c.isDevMode}, {ExampleDisk},
              {ExampleCollections})
  /\ InitHostWith({ExampleSrcDisk}, {ExampleCmpMeta}, {ExampleScssDisk}, {{}})
  /\ InitDecoWith(SeqsUpTo(Members, MaxMembers))
  /\ NoComponents
\* builds of a source tree with a style file missing
InitLogging ==
  /\ InitWith(Configs, {ExampleDisk}, {ExampleCollections})
  /\ InitHostWith({ExampleSrcDisk}, {ExampleCmpMeta}, {{"b.scss", Partial}}, {{}})
  /\ NoClass
  /\ NoComponents
\* every list of component descriptors
InitRegistry ==
  /\ InitWith({c \in PlainConfigs : c.isDevMode}, {ExampleDisk},
              {ExampleCollections})
  /\ InitHostWith({ExampleSrcDisk}, {ExampleCmpMeta}, {ExampleScssDisk}, {{}})
  /\ NoClass
  /\ InitRegWith(SeqsUpTo(Descriptors, MaxComponents))

Next ==
  \/ Validate
  \/ Discover
  \/ CompileStart
  \/ WorkerDispatch
  \/ WorkerComplete
  \/ CompileJoin
  \/ Merge
  \/ BundleStart
  \/ BundleJoin
  \/ Generate
  \/ Reconcile
  \/ Catch
  \/ Finalize

Spec == Init /\ [][Next]_vars
SpecMerge == InitMerge /\ [][Next]_vars
SpecReconcile == InitReconcile /\ [][Next]_vars
SpecLogging == InitLogging /\ [][Next]_vars

NextHost ==
  \/ HostFileExists
  \/ HostReadFile
  \/ FileChanged

SpecHost == InitHost /\ [][NextHost]_vars

\* the emit of one transpileFile call, and the style callbacks that run when
\* sass is done
NextStyles ==
  \/ HostWriteFile
  \/ SassCallback
  \/ TranspileReturn

SpecStyles == InitStyles /\ [][NextStyles]_vars

NextStates ==
  \/ GetStateDecoratorMeta
  \/ GetStateDecoratorMetaOther

SpecStates == InitStates /\ [][NextStates]_vars

NextRegistry ==
  \/ RegisterComponentsES5
  \/ ConnectedCallback
  \/ AttributeChangedCallback
  \/ DisconnectedCallback
  \/ QueueUpdate
  \/ InitLoadComponent

SpecRegistry == InitRegistry /\ [][NextRegistry]_vars

\* the event loop runs every callback that is ready, and a worker that has a
\* task finishes it
FairSpec == Init /\ [][Next]_vars /\ WF_vars(Next)


\* ------------------------------------------------------------ properties
InSeq(s, x) == \E i \in 1..Len(s) : s[i] = x
Last(s) == s[Len(s)]
StageIndex(st) == CHOOSE i \in 1..Len(StageOrder) : StageOrder[i] = st
ConfigMessages == {"config.srcDir required", "config.sys required",
                   "config.sys.fs required", "config.sys.path required",
                   "config.sys.sass required", "config.sys.rollup required",
                   "config.sys.typescript required"}
\* a stage has thrown or rejected
Failed == err # NoErr
\* the reconciler has run to its end
Reconciled == InSeq(started, "reconcile") /\ err.msg # "reconcile"

\* C1: a build whose config misses srcDir, sys, sys.fs, sys.path, sys.sass,
\* sys.rollup or sys.typescript fails in validate: no stage after validate is
\* ever started, no task is dispatched, nothing is put into the buffer or
\* written to or deleted from disk, and the results the promise resolves with
\* hold the error diagnostic of the missing field.
C1_InvalidConfigFailsInValidate ==
  cfg.present # ConfigFields =>
    /\ \A i \in 1..Len(started) : started[i] \in {"validate", "finalize"}
    /\ numFiles = 0 /\ wmQueue = <<>> /\ wmBusy = {}
    /\ filesToWrite = EmptyMap
    /\ reconciler = "none" /\ fsLog = {} /\ disk = disk0
    /\ dependentManifests = <<>> /\ mergeInput = <<>>
    /\ pc = "done" =>
         /\ promise = "resolved"
         /\ Len(diagnostics) = 1
         /\ diagnostics[1].type = "error"
         /\ diagnostics[1].msg \in ConfigMessages

C1_Witness ==
  /\ cfg.present = ConfigFields \ {"sys.typescript"}
  /\ pc = "done"
  /\ started = <<"validate", "finalize">>
  /\ diagnostics[1].msg = "config.sys.typescript required"

\* C2: whichever stage fails, an error diagnostic is appended, the stages left
\* before finalize are skipped, finalize logs every diagnostic and the promise
\* resolves, whatever the diagnostics in the list.
C2_FailureNeverEscapes ==
  /\ Failed /\ pc \in {"finalize", "done"} =>
       /\ diagnostics # <<>>
       /\ Last(diagnostics).type = "error"
       /\ Last(diagnostics).msg = err.msg
  /\ pc = "done" =>
       /\ promise = "resolved"
       /\ Len(logged) = Len(diagnostics)
       /\ \A i \in 1..Len(diagnostics) : logged[i].msg = diagnostics[i].msg

\* C3: stages start in the order validate, discover, compile, merge, bundle,
\* generate, reconcile, finalize, each at most once; a stage starts only once
\* the one before it has completed (the results of its tasks are in); nothing
\* starts after finalize.
C3_StagesInOrder ==
  /\ \A i \in 1..(Len(started) - 1) : StageIndex(started[i]) < StageIndex(started[i + 1])
  /\ started # <<>> => started[1] = "validate"
  /\ pc = "done" => Last(started) = "finalize"
  /\ InSeq(started, "finalize") => pc = "done"
  /\ (wmQueue # <<>> \/ wmBusy # {}) => Last(started) \in {"compile", "bundle"}
  /\ \A i \in 1..Len(started) :
       /\ StageIndex(started[i]) > StageIndex("compile") /\ InSeq(started, "compile") =>
            \/ err.msg = "compile"
            \/ compileResults.set /\ \A t \in 1..numFiles : taskResult[t] # "none"
       /\ StageIndex(started[i]) > StageIndex("bundle") /\ InSeq(started, "bundle") =>
            \/ err.msg = "bundle"
            \/ taskResult[BundleTask] # "none"

C3_Witness ==
  /\ pc = "done"
  /\ started = StageOrder
  /\ numFiles = NumTasks

\* C4: without watch mode the worker manager is disconnected exactly once, in
\* finalize, when no task is queued or running, and run() is never called
\* after it; in watch mode it is never disconnected.
C4_DisconnectOnce ==
  /\ ~wmLateRun
  /\ ~wmConnected => pc = "done" /\ wmQueue = <<>> /\ wmBusy = {}
  /\ pc = "done" =>
       IF cfg.isWatch THEN wmConnected /\ wmDisconnects = 0
                      ELSE ~wmConnected /\ wmDisconnects = 1

\* C5: the merge of the manifests begins only when the result of every
\* transpile task compile dispatched is in, and every dispatched task's result
\* does come in.
C5_JoinBarrier ==
  /\ [](InSeq(started, "merge") => \A t \in 1..numFiles : taskResult[t] # "none")
  /\ \A t \in Tasks :
       (InSeq(started, "compile") /\ t <= numFiles) ~> (taskResult[t] # "none")

C5_Witness ==
  /\ InSeq(started, "merge")
  /\ numFiles = NumTasks
  /\ taskResult[1] = "fail"
  /\ taskResult[NumTasks] = "ok"

\* C6: mergeManifests is given the local manifest first and then the
\* dependent manifests in declared order; the merged manifest has one entry
\* per tag, every tag of the inputs is in it, and a tag the local manifest has
\* keeps the local entry.
ManifestTags(m) == {m[i].tag : i \in 1..Len(m)}
C6_LocalManifestWins ==
  mergeInput # <<>> =>
    /\ Len(mergeInput) = 1 + Len(collections)
    /\ mergeInput[1] = localManifest
    /\ ManifestTags(mergeInput[1]) = ManifestTags(compileResults.manifest)
    /\ \A i \in 1..Len(mergeInput[1]) : mergeInput[1][i].owner = 0
    /\ \A k \in 1..Len(collections) :
         /\ ManifestTags(mergeInput[k + 1]) = collections[k]
         /\ \A i \in 1..Len(mergeInput[k + 1]) : mergeInput[k + 1][i].owner = k
    /\ \A i, j \in 1..Len(manifest) : manifest[i].tag = manifest[j].tag => i = j
    /\ ManifestTags(manifest) =
         UNION {ManifestTags(mergeInput[k]) : k \in 1..Len(mergeInput)}
    /\ \A i \in 1..Len(manifest) :
         manifest[i].tag \in ManifestTags(localManifest) =>
           /\ manifest[i].owner = 0
           /\ InSeq(localManifest, manifest[i])

C6_Witness ==
  /\ mergeInput # <<>>
  /\ Len(collections) = MaxDeps
  /\ \E i \in 1..Len(localManifest) :
       /\ localManifest[i].tag \in collections[1] \cap collections[MaxDeps]
       /\ InSeq(manifest, localManifest[i])

\* C7: without dev mode, once the reconciler has run the files on disk are
\* exactly the keys of the buffer, each with the buffer's content: what was on
\* disk and is not in the buffer has been deleted, and nothing else.
C7_ProdDiffAndPrune ==
  (~cfg.isDevMode /\ Reconciled) =>
    /\ reconciler = "updateDirectories"
    /\ DOMAIN disk = DOMAIN filesToWrite
    /\ \A p \in DOMAIN disk : disk[p] = filesToWrite[p]
    /\ fsLog = {<<"write", p>> : p \in DOMAIN filesToWrite}
                 \cup {<<"delete", p>> : p \in (DOMAIN disk0) \ (DOMAIN filesToWrite)}

C7_Witness ==
  /\ ~cfg.isDevMode /\ Reconciled
  /\ disk0 = ExampleDisk
  /\ DOMAIN filesToWrite = {"a.js", "b.js", "c.js"}
  /\ DOMAIN disk = {"a.js", "b.js", "c.js"}

\* C8: in dev mode the build calls writeFiles only: nothing is ever deleted,
\* what was on disk and is not in the buffer keeps its content, and once the
\* reconciler has run every entry of the buffer is on disk with the buffer's
\* content; updateDirectories is called only without dev mode.
C8_DevAdditive ==
  /\ reconciler = "updateDirectories" => ~cfg.isDevMode
  /\ cfg.isDevMode =>
       /\ \A p \in Paths : <<"delete", p>> \notin fsLog
       /\ \A p \in DOMAIN disk0 : p \in DOMAIN disk
       /\ \A p \in (DOMAIN disk0) \ (DOMAIN filesToWrite) : disk[p] = disk0[p]
       /\ Reconciled =>
            /\ reconciler = "writeFiles"
            /\ \A p \in DOMAIN filesToWrite : p \in DOMAIN disk /\ disk[p] = filesToWrite[p]

C8_Witness ==
  /\ cfg.isDevMode /\ Reconciled
  /\ "stale.js" \in DOMAIN disk /\ "stale.js" \notin DOMAIN filesToWrite
  /\ \E p \in DOMAIN disk0 : p \in DOMAIN filesToWrite /\ disk[p] # disk0[p]


\* C9 as stated: whatever the path, readFile leaves a record of it, so no
\* path is read from disk twice and fileExists holds of every path readFile
\* was called with.
C9_ReadFileAlwaysCaches ==
  /\ \A p \in SrcPaths : created[p] <= 1 /\ diskReads[p] <= 1
  /\ hostRet.op = "readFile" => hostRet.path \in DOMAIN moduleFiles

\* C9, amended: readFile of a path that has a record returns the record's
\* text and reads no disk; otherwise it reads the disk once and, when that
\* read succeeds, creates the one record of the path, flagged
\* recompileOnChange, so that the path is never read from disk again and
\* fileExists holds of it; when the read throws, no record is created.
C9_ReadFileCachesWhatItCouldRead ==
  /\ [](\A p \in SrcPaths :
          /\ created[p] <= 1
          /\ p \in DOMAIN moduleFiles <=> created[p] = 1)
  /\ [](hostRet.op = "readFile" /\ ~hostRet.threw =>
          /\ hostRet.path \in DOMAIN moduleFiles
          /\ hostRet.text = moduleFiles[hostRet.path].srcText
          /\ hostRet.reads = 1 => moduleFiles[hostRet.path].recompileOnChange)
  /\ [](hostRet.op = "readFile" /\ hostRet.threw =>
          /\ hostRet.path \notin DOMAIN moduleFiles
          /\ hostRet.reads = 1)
  /\ [][\A p \in DOMAIN moduleFiles : diskReads'[p] = diskReads[p]]_vars

\* a second readFile of a path read from disk before, whose file has changed
\* since: the cached text comes back
C9_Witness ==
  /\ hostRet.op = "readFile"
  /\ hostRet.reads = 0
  /\ hostRet.path # RootFile
  /\ diskReads[hostRet.path] = 1
  /\ hostRet.path \in DOMAIN hostDisk
  /\ hostDisk[hostRet.path] # hostRet.text

\* C10: fileExists(path) is true exactly when the record map holds a record
\* of path, whatever is on disk, and a call of it reads no disk and changes
\* neither the map nor the disk.
C10_FileExistsInMemoryOnly ==
  /\ [](hostRet.op = "fileExists" =>
          (hostRet.exists <=> hostRet.path \in DOMAIN moduleFiles))
  /\ [][hostRet'.op = "fileExists" /\ hostCalls' # hostCalls =>
          UNCHANGED <<moduleFiles, diskReads, created, hostDisk>>]_vars

C10_Witness ==
  /\ hostRet.op = "fileExists"
  /\ hostRet.path \in DOMAIN hostDisk
  /\ ~hostRet.exists

\* C11: a writeFile call marks the record of each originating source file
\* that has one as needing recompilation and sets its compiled path and text
\* to the call's; it starts style processing exactly when such a record
\* declares style references; it creates no record, changes no other record,
\* and in every case stores the text under the path in compileResults.jsFiles.
C11_WriteFileFrame ==
  [][hostRet'.op = "writeFile" /\ hostCalls' # hostCalls =>
       /\ DOMAIN moduleFiles' = DOMAIN moduleFiles
       /\ \A p \in DOMAIN moduleFiles :
            moduleFiles'[p] =
              IF p \in hostRet'.srcs
                THEN [moduleFiles[p] EXCEPT !.recompileOnChange = TRUE,
                                            !.jsFilePath = hostRet'.path,
                                            !.jsText = hostRet'.text]
                ELSE moduleFiles[p]
       /\ (\E s \in AllScss : renderCalls'[s] > renderCalls[s])
            <=> (\E p \in hostRet'.srcs \cap DOMAIN moduleFiles :
                   /\ moduleFiles[p].hasCmpMeta
                   /\ moduleFiles[p].hasStyleMeta
                   /\ moduleFiles[p].styleUrls # <<>>)
       /\ DOMAIN jsFiles' = DOMAIN jsFiles \cup {hostRet'.path}
       /\ jsFiles'[hostRet'.path] = hostRet'.text
       /\ \A q \in DOMAIN jsFiles \ {hostRet'.path} : jsFiles'[q] = jsFiles[q]]_vars

\* a call for a component with a style and for a file that has no record,
\* while the map holds the record of a third file
C11_Witness ==
  /\ hostRet.op = "writeFile"
  /\ hostRet.srcs = {"cmp.ts", "gone.ts"}
  /\ "util.ts" \in DOMAIN moduleFiles
  /\ moduleFiles["util.ts"].jsFilePath = "none"
  /\ moduleFiles["cmp.ts"].jsFilePath = hostRet.path
  /\ renderCalls["a.scss"] > 0
  /\ hostRet.path \in DOMAIN jsFiles

\* C12: a style file referenced several times is compiled by the style
\* compiler once per path, and compileResults.includedSassFiles never holds
\* the same path twice.
C12_StyleCompiledOncePerPath ==
  /\ \A p \in AllScss : renderCalls[p] <= 1
  /\ \A i, j \in DOMAIN includedSassFiles :
       includedSassFiles[i] = includedSassFiles[j] => i = j

\* C13: when a style reference resolves to a path sass cannot read, the
\* diagnostics transpileFile returns for the file hold a style compile error,
\* the style callback has still run to its end, and the script output is in
\* compileResults.jsFiles.
C13_StyleErrorIsDiagnostic ==
  \A p \in AllScss :
    returned /\ renderCalls[p] > 0 /\ sassPending[p] = 0 /\ p \notin scssDisk =>
      /\ \E i \in DOMAIN hostDiagnostics : hostDiagnostics[i].msg = "StyleCompileError"
      /\ DOMAIN jsFiles # {}

\* C19: at the moment transpileFile returns, compileResults.includedSassFiles
\* holds every style path the emitted files referenced and every file those
\* include, also when sass calls back later.
C19_StylesCompleteAtReturn ==
  [][returned' /\ ~returned =>
       \A p \in AllScss :
         renderCalls[p] > 0 =>
           /\ Listed(includedSassFiles', p)
           /\ p \in scssDisk =>
                \A i \in DOMAIN IncludedFiles(p) :
                  Listed(includedSassFiles', IncludedFiles(p)[i])]_vars

\* C14: state-property extraction does not depend on declaration order: the
\* same members in any other order give the same statesMeta, which is sorted
\* without regard to letter case, also when two names differ only by case.
C14_OrderIndependent ==
  runs >= 1 /\ otherDone =>
    /\ firstMeta = otherMeta
    /\ \A i, j \in DOMAIN firstMeta : i < j => Compare(firstMeta[i], firstMeta[j]) <= 0

\* C15: statesMeta holds no name twice, also when one member carries two
\* State decorators or two members have the same name.
C15_NoDuplicateStates ==
  runs >= 1 => \A i, j \in DOMAIN firstMeta : firstMeta[i] = firstMeta[j] => i = j

\* C16: a second getStateDecoratorMeta call on the file metadata and class
\* node the first call left behind leaves statesMeta as the first call made it.
C16_Idempotent ==
  runs >= 2 => statesMeta = firstMeta

\* C17 as stated: every descriptor gets exactly one class under its tag, with
\* that descriptor's observed attributes, and the connected, attribute-changed,
\* disconnected and queue-update hooks hand that descriptor to their handler.
C17_EveryHookGetsDescriptor ==
  registered =>
    /\ \A i \in DOMAIN components :
         /\ Cardinality({k \in DOMAIN defined : defined[k].tag = components[i].tag}) = 1
         /\ defined[i].class.observedAttributes = getObservedAttributes(components[i])
    /\ lastCall.handler \in {"connectedCallback", "attributeChangedCallback",
                             "disconnectedCallback", "queueUpdate"} =>
         lastCall.cmpMeta = components[lastCall.elm]

\* C17: every descriptor gets exactly one class, defined under its tag and
\* with its observed attributes; the connected and attribute-changed hooks of
\* that class hand that descriptor to their handlers, the queue-update hook
\* hands over that descriptor's tag, the load hook its listeners, and the
\* disconnected hook hands over no descriptor at all.
C17_HooksBoundToOwnDescriptor ==
  registered =>
    /\ Len(defined) = Len(components)
    /\ \A i \in DOMAIN components :
         /\ Cardinality({k \in DOMAIN defined : defined[k].tag = components[i].tag}) = 1
         /\ defined[i].tag = components[i].tag
         /\ defined[i].class.observedAttributes = getObservedAttributes(components[i])
    /\ lastCall.handler \in {"connectedCallback", "attributeChangedCallback"} =>
         lastCall.cmpMeta = components[lastCall.elm]
    /\ lastCall.handler = "queueUpdate" =>
         lastCall.tag = components[lastCall.elm].tag /\ lastCall.cmpMeta = NoDescriptor
    /\ lastCall.handler = "initLoadComponent" =>
         lastCall.listeners = components[lastCall.elm].listeners
    /\ lastCall.handler = "disconnectedCallback" =>
         lastCall.cmpMeta = NoDescriptor /\ lastCall.tag = "none"

\* two components with different attributes, and a hook of the first one
\* called after the second was defined
C17_Witness ==
  /\ registered
  /\ Len(components) = 2
  /\ components[1].attrs # components[2].attrs
  /\ lastCall.handler = "attributeChangedCallback"
  /\ lastCall.elm = 1

\* C18: nothing is given to the logger as an error or a warning while a
\* stage before finalize runs, style errors during compile included.
C18_NothingLoggedBeforeFinalize ==
  ~InSeq(started, "finalize") =>
    \A i \in DOMAIN logged : logged[i].method \notin {"error", "warn"}

\* C20: the reconciler is called at most once, and only after compile, bundle
\* and project-file generation have put their entries into the one buffer;
\* until then nothing is written to or deleted from the disk; and at the flush
\* every entry compile added is in the buffer, with compile's content unless
\* bundle or project-file generation wrote the same path, whose content then
\* stands, the later stage's over the earlier's.
C20_FlushedOnceAtTheEnd ==
  /\ Cardinality({i \in DOMAIN started : started[i] = "reconcile"}) <= 1
  /\ reconciler = "none" => fsLog = {} /\ disk = disk0
  /\ ~writeCompiledToDisk
  /\ InSeq(started, "reconcile") =>
       /\ compileResults.set
       /\ InSeq(started, "merge") /\ InSeq(started, "bundle") /\ InSeq(started, "generate")
       /\ DOMAIN filesToWrite =
            DOMAIN compileResults.files \cup DOMAIN bundleFiles \cup {LoaderPath}
       /\ \A p \in DOMAIN filesToWrite :
            filesToWrite[p] = IF p = LoaderPath THEN "project"
                              ELSE IF p \in DOMAIN bundleFiles THEN "bundle"
                              ELSE "compile"

\* a flush of a buffer in which bundle replaced one entry of compile, project-
\* file generation another, and a third is still compile's
C20_Witness ==
  /\ reconciler # "none"
  /\ \E p \in DOMAIN compileResults.files \cap DOMAIN bundleFiles : p # LoaderPath
  /\ LoaderPath \in DOMAIN compileResults.files
  /\ \E p \in DOMAIN filesToWrite : filesToWrite[p] = "compile"
  /\ fsLog # {}

====
